---- MODULE Spec2Model ----
(***************************************************************************)
(* ChunkedDownloader (content/scripts/chunked_downloader.py): a resumable, *)
(* chunked download of one remote resource to one destination path.        *)
(*                                                                         *)
(* The disk holds three files per destination: dest, dest.tmp and          *)
(* dest.meta (the ledger).  A run of download_with_resume is a sequence of *)
(* steps (pc); the process may be interrupted between any two steps, which *)
(* loses the in-memory state and keeps the disk.  The remote server is the *)
(* environment: every ranged GET is answered with one of the Statuses.     *)
(*                                                                         *)
(* Files are sequences of bytes; offset o of a file is index o + 1.        *)
(* The remote resource holds byte o + 1 at offset o, so its bytes are      *)
(* non-zero and pairwise distinct; a pre-allocated byte is 0.              *)
(***************************************************************************)
EXTENDS Integers, Sequences, FiniteSets, TLC

\* ---------------------------------------------------------------- bounds
\* Largest remote size (bytes) and largest chunk size.
MaxSize == 4
MaxChunk == 2

\* ---------------------------------------------------- program constants
CHUNK_SIZE == 4 * 1024 * 1024
MAX_RETRIES == 3
RETRY_DELAY == 5
SAVE_EVERY == 10

\* download_manager.py
DM_MAX_RETRIES == 3
MAX_CONCURRENT_DOWNLOADS == 3

\* Largest resource and longest temp file of the DownloadManager.
DMMaxSize == 2
DMMaxLen == 4

\* Files handed to download_all.
NFiles == 2

\* Entries of the ZIM file and largest batch_size of the extractor.
NEntries == 4
MaxBatch == 2

VARIABLES
    \* inputs of the download command (the same command is re-run to resume)
    file_size,          \* content-length reported by the HEAD probe
    chunk_size,         \* self.chunk_size
    verify_hash,        \* the verify_hash argument
    \* the disk
    dest,               \* dest_path
    tmp,                \* temp_path  (dest_path + ".tmp")
    meta,               \* meta_path  (dest_path + ".meta")
    \* the running call of download_with_resume
    pc,                 \* its position
    chunk_num,          \* loop variable of "for chunk_num in range(total_chunks)"
    attempt,            \* loop variable of "for attempt in range(max_retries)"
    chunks_completed,   \* the in-memory set
    chunk_data,         \* bytes returned by download_chunk_with_retry
    result,             \* how the last call ended: what it returned, or
                        \* the exception it raised
    \* history of the current run (reset when a run starts)
    ledger_at_start,    \* chunks_completed as loaded from the ledger
    dest_at_start,      \* dest as it was when the run started
    fetched,            \* ordinals for which a ranged GET was issued
    requested,          \* the (ordinal, start, end) of every ranged GET
    nreq,               \* GETs issued for the current chunk
    sleeps,             \* back-off delays slept for the current chunk
    last_status,        \* status of the latest response for the current chunk
    only_transient,     \* every response for the current chunk was transient
    saw200,             \* some ranged GET of this run was answered 200
    mismatch,           \* verification ran and the digests differed
    verified,           \* verification ran and the digests agreed
    renamed,            \* temp_path.rename(dest_path) was executed
    unlinked,           \* meta_path.unlink() removed the ledger
    \* a second call of download_with_resume for the same destination
    second_pc,          \* its position
    second_chunk_num,   \* its loop variable
    second_completed,   \* its in-memory chunks_completed
    second_wrote,       \* the files of the destination it has written
    \* download_content_package
    manifest,           \* the parsed manifest document
    module,             \* the "module" argument
    pkg_pc,             \* position in download_content_package
    module_name,        \* the key of modules_to_download
    module_info,        \* its value
    success,            \* the local "success"
    attempted,          \* artifacts for which download_with_resume was called
    failed,             \* artifacts whose download returned False or raised
    pkg_result,         \* what download_content_package returned
    \* DownloadManager (download_manager.py), one file of its download list
    dm_remote,          \* size of the resource at the file's url
    dm_size_bytes,      \* file_info.get('size_bytes', 0)
    dm_dest,            \* dest_path
    dm_tmp,             \* dest_path.with_suffix('.tmp')
    dm_pc,              \* position in download_file
    dm_attempt,         \* loop variable of "for attempt in range(MAX_RETRIES)"
    dm_status,          \* status['downloads'][file_id]['status']
    dm_attempts,        \* status['downloads'][file_id]['attempts']
    dm_error,           \* status['downloads'][file_id]['error']
    dm_supports_resume, \* file_info['supports_resume'] of the latest probe
    dm_start_pos,       \* start_pos of the latest download_with_progress
    dm_probe_failed,    \* the latest get_file_info caught an exception
    dm_result,          \* what download_file returned
    \* download_all: one worker thread per file of the list
    downloads,          \* self.status['downloads'][file_id]['status']
    status_file,        \* self.status_file on disk
    wk_pc,              \* each worker's position in download_file
    wk_attempt,         \* each worker's "for attempt in range(MAX_RETRIES)"
    wk_return,          \* where each worker's save_status returns to
    wk_buffer,          \* what each worker's json.dump has written, unflushed
    wk_result,          \* what each worker's download_file returned
    \* StreamingZIMExtractor
    batch_size,         \* self.batch_size
    has_uuid,           \* hasattr(entry, 'uuid') for the entries of the ZIM
    last_uuid,          \* local of process_zim_file: the checkpoint loaded
    found_start_point,  \* local of process_zim_file
    state_file,         \* last_processed_uuid in processing_state.json
    ex_pc,              \* position in process_zim_file
    ex_pos,             \* entries of the ZIM file iterated so far
    last_processed_uuid,\* local of process_zim_file
    batch_articles,     \* local of process_zim_file
    indexed,            \* articles tantivy-indexer has put in the index
    batch_failed        \* the latest process_batch counted a batch error

inputs == <<file_size, chunk_size, verify_hash>>
disk == <<dest, tmp, meta>>
local == <<pc, chunk_num, attempt, chunks_completed, chunk_data, result>>
chunk_hist == <<nreq, sleeps, last_status, only_transient>>
run_hist == <<ledger_at_start, dest_at_start, fetched, requested, saw200,
              mismatch, verified, renamed, unlinked>>
download == <<inputs, disk, local, chunk_hist, run_hist>>
second == <<second_pc, second_chunk_num, second_completed, second_wrote>>
package == <<manifest, module, pkg_pc, module_name, module_info, success,
             attempted, failed, pkg_result>>
\* What no step of download_with_resume touches.
manager == <<dm_remote, dm_size_bytes, dm_dest, dm_tmp, dm_pc, dm_attempt,
             dm_status, dm_attempts, dm_error, dm_supports_resume,
             dm_start_pos, dm_probe_failed, dm_result>>
workers == <<downloads, status_file, wk_pc, wk_attempt, wk_return, wk_buffer,
             wk_result>>
extractor == <<batch_size, has_uuid, state_file, ex_pc, ex_pos, last_uuid,
               found_start_point, last_processed_uuid, batch_articles,
               indexed, batch_failed>>
rest == <<workers, extractor>>
apart == <<package, manager, rest>>
\* What a step of the first call of download_with_resume leaves alone.
others == <<second, apart>>
vars == <<download, second, package, manager, rest>>

\* ----------------------------------------------------------------- files
Min(a, b) == IF a < b THEN a ELSE b
Max(a, b) == IF a > b THEN a ELSE b

Absent == [exists |-> FALSE, data |-> <<>>]
File(bytes) == [exists |-> TRUE, data |-> bytes]

Zeros(n) == [k \in 1..n |-> 0]

\* The resource the server holds: size bytes, byte o + 1 at offset o.
Remote(size) == [k \in 1..size |-> k]

\* The body of a 206 answer to "Range: bytes=start-end".
RemoteRange(size, start, end) ==
    [j \in 1..(Min(end, size - 1) - start + 1) |-> Remote(size)[start + j]]

\* f.seek(start); f.write(data): bytes past the old end are zero-filled.
WriteAt(bytes, start, data) ==
    [k \in 1..Max(Len(bytes), start + Len(data)) |->
        IF k > start /\ k <= start + Len(data) THEN data[k - start]
        ELSE IF k <= Len(bytes) THEN bytes[k]
        ELSE 0]

\* ---------------------------------------------------------------- ledger
NoMeta == [state |-> "absent", chunks_completed |-> {}]
Ledger(S) == [state |-> "ok", chunks_completed |-> S]
\* A ledger file cut short by an interrupted json.dump.
CorruptMeta == [state |-> "corrupt", chunks_completed |-> {}]

\* load_metadata: the stored list, or a fresh record when the file is absent.
load_metadata(m) == IF m.state = "ok" THEN m.chunks_completed ELSE {}

\* ------------------------------------------------------------- the plan
\* Variant: the chunk count rounded down.
total_chunks_floor(size, cs) == size \div cs

\* total_chunks = (file_size + self.chunk_size - 1) // self.chunk_size
total_chunks(size, cs) == (size + cs - 1) \div cs

\* start_byte = chunk_num * self.chunk_size
start_byte(n, cs) == n * cs

\* Variant: the last chunk's end not clamped to the file's end.
end_byte_unclamped(n, cs, size) == start_byte(n, cs) + cs - 1

\* end_byte = min(start_byte + self.chunk_size - 1, file_size - 1)
end_byte(n, cs, size) == Min(start_byte(n, cs) + cs - 1, size - 1)

\* --------------------------------------------------------------- digests
\* A hex digest: the content it identifies (SHA-256 taken as injective) and
\* the letter case it is written in.  hexdigest() writes lower case.
hexdigest(bytes) == [hex |-> bytes, upper |-> FALSE]
Upper(h) == [h EXCEPT !.upper = TRUE]
\* str.lower()
lower(h) == [h EXCEPT !.upper = FALSE]

\* calculate_file_hash: the digest of the whole file.
calculate_file_hash(f) == hexdigest(f.data)

NoHash == [given |-> FALSE, digest |-> hexdigest(<<>>)]
Hash(h) == [given |-> TRUE, digest |-> h]

\* Variant: the calculated digest compared with itself.
hash_mismatch_self(calculated, expected) ==
    lower(calculated) /= lower(calculated)

\* calculated_hash.lower() != verify_hash.lower()
hash_mismatch(calculated, expected) == lower(calculated) /= lower(expected)

\* The digests a caller may pass: none, the resource's digest in either
\* letter case, or the digest of some other content.
HashChoices(size) ==
    { NoHash,
      Hash(hexdigest(Remote(size))),
      Hash(Upper(hexdigest(Remote(size)))),
      Hash(hexdigest(Append(Remote(size), 0))) }

\* ----------------------------------------------------------- the server
\* What a ranged GET may come back with: 206 with the range, 200 with the
\* full body, a transient failure (network error, timeout, 5xx), a permanent
\* one (404, 410, 416), or another status below 400 (204, 304) for which
\* raise_for_status() does nothing.
Statuses == {"206", "200", "transient", "permanent", "other"}

\* A response for which the try block raises.
raises(status) == status \in {"200", "transient", "permanent"}

\* Variant: the membership test never succeeds (ordinals read back from
\* the ledger in a type the loop variable never equals).
is_completed_never(n, S) == FALSE

\* "if chunk_num in chunks_completed"
is_completed(n, S) == n \in S

\* ------------------------------------------------------------ the retry
\* Variant: the loop bound off by one (range(max_retries + 1)).
more_attempts_extra(a) == a + 1 < MAX_RETRIES + 1

\* "for attempt in range(max_retries)": attempt a is followed by another.
more_attempts(a) == a + 1 < MAX_RETRIES

\* "if attempt < max_retries - 1": a sleep follows failed attempt a.
sleeps_after(a) == a < MAX_RETRIES - 1

\* Variant: the exponent counts the attempts from one.
wait_time_from_one(a) == RETRY_DELAY * (2 ^ (a + 1))

\* wait_time = self.RETRY_DELAY * (2 ** attempt)
wait_time(a) == RETRY_DELAY * (2 ^ a)

\* Variant: the ledger is saved every eleventh chunk.
save_due_late(S) == Cardinality(S) % (SAVE_EVERY + 1) = 0

\* "if len(chunks_completed) % 10 == 0"
save_due(S) == Cardinality(S) % SAVE_EVERY = 0

\* ------------------------------------------------------------------ Init
\* The remote sizes tried: the small ones, and one whose download with
\* chunk size 1 completes more chunks than the ledger's save interval.
Sizes == (0..MaxSize) \cup {SAVE_EVERY + 1}

InitDownload ==
    /\ file_size \in Sizes
    /\ chunk_size \in 1..MaxChunk
    /\ verify_hash \in HashChoices(file_size)
    /\ dest = Absent
    /\ tmp = Absent
    /\ meta = NoMeta
    /\ pc = "idle"
    /\ chunk_num = 0
    /\ attempt = 0
    /\ chunks_completed = {}
    /\ chunk_data = <<>>
    /\ result = "none"
    /\ ledger_at_start = {}
    /\ dest_at_start = Absent
    /\ fetched = {}
    /\ requested = {}
    /\ nreq = 0
    /\ sleeps = <<>>
    /\ last_status = "none"
    /\ only_transient = TRUE
    /\ saw200 = FALSE
    /\ mismatch = FALSE
    /\ verified = FALSE
    /\ renamed = FALSE
    /\ unlinked = FALSE

\* No second call has started.
InitSecond ==
    /\ second_pc = "idle"
    /\ second_chunk_num = 0
    /\ second_completed = {}
    /\ second_wrote = {}

\* A key of the manifest that may hold a module descriptor: whether the
\* key is there, and which of the descriptor's keys are.
NoEntry == [present |-> FALSE, zim_url |-> FALSE, index_url |-> FALSE]
Entries ==
    {NoEntry} \cup
    {[present |-> TRUE, zim_url |-> z, index_url |-> i] : z, i \in BOOLEAN}

\* The names a manifest may have under "modules".
ModuleNames == {"core", "curated"}

\* module=None
None == "None"

\* download_content_package has not been called.
NoPackage ==
    /\ manifest = [modules |-> [n \in ModuleNames |-> NoEntry], core |-> NoEntry]
    /\ module = None
    /\ pkg_pc = "idle"
    /\ module_name = None
    /\ module_info = NoEntry
    /\ success = TRUE
    /\ attempted = {}
    /\ failed = {}
    /\ pkg_result = "none"

\* download_file has not been called; nothing of the file is on disk.
NoManager ==
    /\ dm_dest = Absent
    /\ dm_tmp = Absent
    /\ dm_pc = "idle"
    /\ dm_attempt = 0
    /\ dm_status = "none"
    /\ dm_attempts = 0
    /\ dm_error = ""
    /\ dm_supports_resume = FALSE
    /\ dm_start_pos = 0
    /\ dm_probe_failed = FALSE
    /\ dm_result = "none"

Files == 1..NFiles

\* A status dict with no entry for any file, serialised or in memory.
NoDownloads == [f \in Files |-> "absent"]

NoWorkers ==
    /\ downloads = NoDownloads
    /\ status_file = [text |-> NoDownloads, len |-> 0, torn |-> FALSE]
    /\ wk_pc = [f \in Files |-> "idle"]
    /\ wk_attempt = [f \in Files |-> 0]
    /\ wk_return = [f \in Files |-> "idle"]
    /\ wk_buffer = [f \in Files |-> NoDownloads]
    /\ wk_result = [f \in Files |-> "none"]

\* No processing_state.json, an empty index, process_zim_file not running.
\* A uuid of 0 stands for None.
ExtractorAtRest ==
    /\ state_file = 0
    /\ ex_pc = "idle"
    /\ ex_pos = 0
    /\ last_uuid = 0
    /\ found_start_point = TRUE
    /\ last_processed_uuid = 0
    /\ batch_articles = {}
    /\ indexed = {}
    /\ batch_failed = FALSE

NoExtractor ==
    /\ batch_size = 1
    /\ has_uuid = TRUE
    /\ ExtractorAtRest

Init ==
    /\ InitDownload
    /\ InitSecond
    /\ NoPackage
    /\ NoManager
    /\ NoWorkers
    /\ NoExtractor
    /\ dm_remote = 1
    /\ dm_size_bytes = 0

\* The in-memory state of a call that is not running.
ResetLocal(res) ==
    /\ pc' = "idle"
    /\ chunk_num' = 0
    /\ attempt' = 0
    /\ chunks_completed' = {}
    /\ chunk_data' = <<>>
    /\ result' = res

\* download_chunk_with_retry is not running: its history is empty.
ResetChunkHistory ==
    /\ nreq' = 0
    /\ sleeps' = <<>>
    /\ last_status' = "none"
    /\ only_transient' = TRUE

\* The history of a run that has just started.
ResetHistory ==
    /\ ResetChunkHistory
    /\ dest_at_start' = dest
    /\ fetched' = {}
    /\ requested' = {}
    /\ saw200' = FALSE
    /\ mismatch' = FALSE
    /\ verified' = FALSE
    /\ renamed' = FALSE
    /\ unlinked' = FALSE

\* ------------------------------------------------- download_with_resume
\* get_file_info raises (the HEAD request failed): the call ends with the
\* exception before it touched the disk.
ProbeFails ==
    /\ pc = "idle"
    /\ ResetHistory
    /\ ledger_at_start' = {}
    /\ ResetLocal("ProbeError")
    /\ UNCHANGED <<others, inputs, disk>>

\* json.load raises on an unparseable ledger: the call ends with the
\* exception.
LoadFails ==
    /\ pc = "idle"
    /\ meta.state = "corrupt"
    /\ ResetHistory
    /\ ledger_at_start' = {}
    /\ ResetLocal("JSONDecodeError")
    /\ UNCHANGED <<others, inputs, disk>>

\* The temp file after "open(temp_path, mode)" and the pre-allocation:
\* kept as it is in 'r+b' mode, created in 'wb' mode.
opened_temp(t, size) ==
    IF t.exists THEN t
    ELSE IF size = 0 THEN File(<<>>)
    ELSE File(Zeros(size))

\* Probe, load the ledger, open the temp file.  In 'wb' mode with size 0,
\* f.seek(-1) raises and the call ends with the exception.
StartRun ==
    /\ pc = "idle"
    /\ meta.state /= "corrupt"
    /\ ResetHistory
    /\ ledger_at_start' = load_metadata(meta)
    /\ tmp' = opened_temp(tmp, file_size)
    /\ IF ~tmp.exists /\ file_size = 0
       THEN ResetLocal("OSError")
       ELSE /\ pc' = "loop"
            /\ chunk_num' = 0
            /\ attempt' = 0
            /\ chunks_completed' = load_metadata(meta)
            /\ chunk_data' = <<>>
            /\ result' = "none"
    /\ UNCHANGED <<others, inputs, dest, meta>>

\* "if chunk_num in chunks_completed: continue"
SkipChunk ==
    /\ pc = "loop"
    /\ chunk_num < total_chunks(file_size, chunk_size)
    /\ is_completed(chunk_num, chunks_completed)
    /\ chunk_num' = chunk_num + 1
    /\ UNCHANGED <<others, inputs, disk, pc, attempt, chunks_completed, chunk_data,
                   result, chunk_hist, run_hist>>

\* An outstanding chunk: enter download_chunk_with_retry.
BeginChunk ==
    /\ pc = "loop"
    /\ chunk_num < total_chunks(file_size, chunk_size)
    /\ ~is_completed(chunk_num, chunks_completed)
    /\ pc' = "request"
    /\ attempt' = 0
    /\ ResetChunkHistory
    /\ UNCHANGED <<others, inputs, disk, chunk_num, chunks_completed, chunk_data,
                   result, run_hist>>

\* One iteration of the retry loop: the ranged GET and what follows it.
Request(status) ==
    LET s == start_byte(chunk_num, chunk_size)
        e == end_byte(chunk_num, chunk_size, file_size)
    IN
    /\ pc = "request"
    /\ nreq' = nreq + 1
    /\ last_status' = status
    /\ only_transient' = (only_transient /\ status = "transient")
    /\ fetched' = fetched \cup {chunk_num}
    /\ requested' = requested \cup {<<chunk_num, s, e>>}
    /\ saw200' = (saw200 \/ status = "200")
    /\ IF status = "206"
       THEN /\ chunk_data' = RemoteRange(file_size, s, e)
            /\ pc' = "write"
            /\ UNCHANGED <<attempt, sleeps>>
       ELSE /\ sleeps' = IF raises(status) /\ sleeps_after(attempt)
                         THEN Append(sleeps, wait_time(attempt))
                         ELSE sleeps
            /\ IF more_attempts(attempt)
               THEN /\ attempt' = attempt + 1
                    /\ pc' = "request"
               ELSE /\ attempt' = attempt
                    /\ pc' = "savefail"
            /\ UNCHANGED chunk_data
    /\ UNCHANGED <<others, inputs, disk, chunk_num, chunks_completed, result,
                   ledger_at_start, dest_at_start, mismatch, verified,
                   renamed, unlinked>>

\* f.seek(start_byte); f.write(chunk_data); f.flush()
WriteChunk ==
    /\ pc = "write"
    /\ tmp' = File(WriteAt(tmp.data, start_byte(chunk_num, chunk_size),
                           chunk_data))
    /\ pc' = "mark"
    /\ ResetChunkHistory
    /\ UNCHANGED <<others, inputs, dest, meta, chunk_num, attempt, chunks_completed,
                   chunk_data, result, run_hist>>

\* Variant: the loop goes on without chunks_completed.add(chunk_num).
MarkChunkForgets ==
    /\ pc = "mark"
    /\ pc' = "loop"
    /\ chunk_num' = chunk_num + 1
    /\ UNCHANGED <<others, inputs, disk, attempt, chunks_completed, chunk_data,
                   result, chunk_hist, run_hist>>

\* chunks_completed.add(chunk_num), then the ledger is saved when due.
MarkChunk ==
    /\ pc = "mark"
    /\ chunks_completed' = chunks_completed \cup {chunk_num}
    /\ IF save_due(chunks_completed')
       THEN /\ pc' = "save"
            /\ UNCHANGED chunk_num
       ELSE /\ pc' = "loop"
            /\ chunk_num' = chunk_num + 1
    /\ UNCHANGED <<others, inputs, disk, attempt, chunk_data, result, chunk_hist,
                   run_hist>>

\* save_metadata after every tenth chunk.
SaveMetadata ==
    /\ pc = "save"
    /\ meta' = Ledger(chunks_completed)
    /\ pc' = "loop"
    /\ chunk_num' = chunk_num + 1
    /\ UNCHANGED <<others, inputs, dest, tmp, attempt, chunks_completed, chunk_data,
                   result, chunk_hist, run_hist>>

\* "except Exception": save_metadata, return False.
SaveOnFailure ==
    /\ pc = "savefail"
    /\ meta' = Ledger(chunks_completed)
    /\ ResetLocal("false")
    /\ ResetChunkHistory
    /\ UNCHANGED <<others, inputs, dest, tmp, run_hist>>

\* Variant: a temp file that fails the comparison is deleted.
VerifyDiscards ==
    /\ pc = "loop"
    /\ chunk_num >= total_chunks(file_size, chunk_size)
    /\ IF verify_hash.given
       THEN IF hash_mismatch(calculate_file_hash(tmp), verify_hash.digest)
            THEN /\ mismatch' = TRUE
                 /\ tmp' = Absent
                 /\ ResetLocal("false")
                 /\ UNCHANGED verified
            ELSE /\ verified' = TRUE
                 /\ pc' = "rename"
                 /\ UNCHANGED <<mismatch, tmp, chunk_num, attempt,
                                chunks_completed, chunk_data, result>>
       ELSE /\ pc' = "rename"
            /\ UNCHANGED <<mismatch, tmp, verified, chunk_num, attempt,
                           chunks_completed, chunk_data, result>>
    /\ UNCHANGED <<others, inputs, dest, meta, chunk_hist, ledger_at_start,
                   dest_at_start, fetched, requested, saw200, renamed,
                   unlinked>>

\* The loop is over; "if verify_hash:" and the comparison.
Verify ==
    /\ pc = "loop"
    /\ chunk_num >= total_chunks(file_size, chunk_size)
    /\ IF verify_hash.given
       THEN IF hash_mismatch(calculate_file_hash(tmp), verify_hash.digest)
            THEN /\ mismatch' = TRUE
                 /\ ResetLocal("false")
                 /\ UNCHANGED verified
            ELSE /\ verified' = TRUE
                 /\ pc' = "rename"
                 /\ UNCHANGED <<mismatch, chunk_num, attempt,
                                chunks_completed, chunk_data, result>>
       ELSE /\ pc' = "rename"
            /\ UNCHANGED <<mismatch, verified, chunk_num, attempt,
                           chunks_completed, chunk_data, result>>
    /\ UNCHANGED <<others, inputs, disk, chunk_hist, ledger_at_start,
                   dest_at_start, fetched, requested, saw200, renamed,
                   unlinked>>

\* temp_path.rename(dest_path)
Rename ==
    /\ pc = "rename"
    /\ dest' = tmp
    /\ tmp' = Absent
    /\ renamed' = TRUE
    /\ pc' = "unlink"
    /\ UNCHANGED <<others, inputs, meta, chunk_num, attempt, chunks_completed,
                   chunk_data, result, chunk_hist, ledger_at_start,
                   dest_at_start, fetched, requested, saw200, mismatch,
                   verified, unlinked>>

\* Variant: the ledger is cleaned up before the temp file is moved.
UnlinkBeforeRename ==
    /\ pc = "rename"
    /\ meta.state /= "absent"
    /\ meta' = NoMeta
    /\ unlinked' = TRUE
    /\ UNCHANGED <<others, inputs, dest, tmp, local, chunk_hist, ledger_at_start,
                   dest_at_start, fetched, requested, saw200, mismatch,
                   verified, renamed>>

\* meta_path.unlink(), return True; FileNotFoundError when no ledger file
\* was ever written.
Unlink ==
    /\ pc = "unlink"
    /\ IF meta.state = "absent"
       THEN /\ ResetLocal("FileNotFoundError")
            /\ UNCHANGED <<meta, unlinked>>
       ELSE /\ meta' = NoMeta
            /\ unlinked' = TRUE
            /\ ResetLocal("true")
    /\ UNCHANGED <<others, inputs, dest, tmp, chunk_hist, ledger_at_start,
                   dest_at_start, fetched, requested, saw200, mismatch,
                   verified, renamed>>

\* ---------------------------------------------------------- interruption
\* An interrupted run leaves no history: what it left is on the disk.
NoHistory ==
    /\ ResetChunkHistory
    /\ ledger_at_start' = {}
    /\ dest_at_start' = Absent
    /\ fetched' = {}
    /\ requested' = {}
    /\ saw200' = FALSE
    /\ mismatch' = FALSE
    /\ verified' = FALSE
    /\ renamed' = FALSE
    /\ unlinked' = FALSE

\* The process is killed between two steps: the disk stays as it is.
Crash ==
    /\ pc /= "idle"
    /\ ResetLocal("crashed")
    /\ NoHistory
    /\ UNCHANGED <<others, inputs, disk>>

\* Killed inside f.write(chunk_data): a proper prefix of the chunk reached
\* the file.
CrashInWrite ==
    /\ pc = "write"
    /\ \E k \in 0..(Len(chunk_data) - 1) :
          tmp' = File(WriteAt(tmp.data, start_byte(chunk_num, chunk_size),
                              SubSeq(chunk_data, 1, k)))
    /\ ResetLocal("crashed")
    /\ NoHistory
    /\ UNCHANGED <<others, inputs, dest, meta>>

\* Killed inside json.dump: the ledger file is left truncated.
CrashInSave ==
    /\ pc \in {"save", "savefail"}
    /\ meta' = CorruptMeta
    /\ ResetLocal("crashed")
    /\ NoHistory
    /\ UNCHANGED <<others, inputs, dest, tmp>>

Next ==
    \/ ProbeFails
    \/ LoadFails
    \/ StartRun
    \/ SkipChunk
    \/ BeginChunk
    \/ \E status \in Statuses : Request(status)
    \/ WriteChunk
    \/ MarkChunk
    \/ SaveMetadata
    \/ SaveOnFailure
    \/ Verify
    \/ Rename
    \/ Unlink
    \/ Crash
    \/ CrashInWrite
    \/ CrashInSave

Spec == Init /\ [][Next]_vars

\* ------------------------------------------- two calls, one destination
\* A second call of download_with_resume for the same destination, started
\* (by another process) while the first is in flight.  It runs the same
\* code; it is followed in coarser steps, up to the end of its chunk loop,
\* and only while the temp file is at its path.
InFlight == pc /= "idle"

\* Lines 103-145 of the second call: nothing looks for another attempt; the
\* ledger is loaded and the temp file opened ('wb' creates it).
StartSecond ==
    /\ InFlight
    /\ second_pc = "idle"
    /\ meta.state /= "corrupt"
    /\ second_pc' = "loop"
    /\ second_chunk_num' = 0
    /\ second_completed' = load_metadata(meta)
    /\ tmp' = opened_temp(tmp, file_size)
    /\ second_wrote' = IF tmp.exists THEN {} ELSE {"tmp"}
    /\ UNCHANGED <<apart, inputs, dest, meta, local, chunk_hist, run_hist>>

\* "if chunk_num in chunks_completed: continue" in the second call.
SecondSkip ==
    /\ second_pc = "loop"
    /\ second_chunk_num < total_chunks(file_size, chunk_size)
    /\ is_completed(second_chunk_num, second_completed)
    /\ second_chunk_num' = second_chunk_num + 1
    /\ UNCHANGED <<apart, download, second_pc, second_completed,
                   second_wrote>>

\* The second call fetches an outstanding chunk (206), writes it at its
\* offset and marks it.
SecondChunk ==
    LET s == start_byte(second_chunk_num, chunk_size)
        e == end_byte(second_chunk_num, chunk_size, file_size)
    IN
    /\ second_pc = "loop"
    /\ second_chunk_num < total_chunks(file_size, chunk_size)
    /\ ~is_completed(second_chunk_num, second_completed)
    /\ tmp.exists
    /\ tmp' = File(WriteAt(tmp.data, s, RemoteRange(file_size, s, e)))
    /\ second_completed' = second_completed \cup {second_chunk_num}
    /\ second_chunk_num' = second_chunk_num + 1
    /\ second_wrote' = second_wrote \cup {"tmp"}
    /\ UNCHANGED <<apart, inputs, dest, meta, local, chunk_hist, run_hist,
                   second_pc>>

\* Every attempt for an outstanding chunk of the second call failed:
\* save_metadata, return False.
SecondFails ==
    /\ second_pc = "loop"
    /\ second_chunk_num < total_chunks(file_size, chunk_size)
    /\ ~is_completed(second_chunk_num, second_completed)
    /\ meta' = Ledger(second_completed)
    /\ second_wrote' = second_wrote \cup {"meta"}
    /\ second_pc' = "false"
    /\ UNCHANGED <<apart, inputs, dest, tmp, local, chunk_hist, run_hist,
                   second_chunk_num, second_completed>>

\* The chunk loop of the second call is over.
SecondLoopEnds ==
    /\ second_pc = "loop"
    /\ second_chunk_num >= total_chunks(file_size, chunk_size)
    /\ second_pc' = "verify"
    /\ UNCHANGED <<apart, download, second_chunk_num, second_completed,
                   second_wrote>>

InitTwoAttempts ==
    /\ Init
    /\ file_size \in 1..MaxSize
    /\ verify_hash = NoHash

NextTwoAttempts ==
    \/ StartRun
    \/ SkipChunk
    \/ BeginChunk
    \/ \E status \in Statuses : Request(status)
    \/ WriteChunk
    \/ MarkChunk
    \/ SaveOnFailure
    \/ Verify
    \/ Rename
    \/ Unlink
    \/ StartSecond
    \/ SecondSkip
    \/ SecondChunk
    \/ SecondFails
    \/ SecondLoopEnds

SpecTwoAttempts == InitTwoAttempts /\ [][NextTwoAttempts]_vars

\* ------------------------------------------- bodies of another length
\* n bytes as a server may send them from offset start of the resource:
\* what the resource holds there, zeros past its end.
BodyOf(size, start, n) ==
    [j \in 1..n |-> IF start + j <= size THEN Remote(size)[start + j] ELSE 0]

\* One iteration of the retry loop whose GET is answered 206 with a body of
\* n bytes, n not the length of the range: "return response.content"
\* (lines 86-87).
RequestOtherLength(n) ==
    LET s == start_byte(chunk_num, chunk_size)
        e == end_byte(chunk_num, chunk_size, file_size)
    IN
    /\ pc = "request"
    /\ n /= e - s + 1
    /\ nreq' = nreq + 1
    /\ last_status' = "206"
    /\ only_transient' = FALSE
    /\ fetched' = fetched \cup {chunk_num}
    /\ requested' = requested \cup {<<chunk_num, s, e>>}
    /\ chunk_data' = BodyOf(file_size, s, n)
    /\ pc' = "write"
    /\ UNCHANGED <<others, inputs, disk, chunk_num, attempt, chunks_completed,
                   result, sleeps, ledger_at_start, dest_at_start, saw200,
                   mismatch, verified, renamed, unlinked>>

InitBodies ==
    /\ Init
    /\ file_size \in 1..(MaxChunk + 1)
    /\ verify_hash = NoHash

NextBodies ==
    \/ StartRun
    \/ SkipChunk
    \/ BeginChunk
    \/ \E status \in Statuses : Request(status)
    \/ \E n \in 0..(MaxChunk + 1) : RequestOtherLength(n)
    \/ WriteChunk
    \/ MarkChunk
    \/ SaveOnFailure
    \/ Verify
    \/ Rename
    \/ Unlink

SpecBodies == InitBodies /\ [][NextBodies]_vars

\* ------------------------------------------------ a changed chunk size
\* Between two calls the downloader is constructed again with another
\* chunk_size (__init__, line 28); the files on disk stay as they are.
Reconfigure ==
    /\ pc = "idle"
    /\ chunk_size' \in (1..MaxChunk) \ {chunk_size}
    /\ UNCHANGED <<others, file_size, verify_hash, disk, local, chunk_hist,
                   run_hist>>

InitReconfigured ==
    /\ Init
    /\ file_size \in 1..MaxSize
    /\ verify_hash = NoHash

NextReconfigured ==
    \/ StartRun
    \/ SkipChunk
    \/ BeginChunk
    \/ \E status \in Statuses : Request(status)
    \/ WriteChunk
    \/ MarkChunk
    \/ SaveOnFailure
    \/ Verify
    \/ Rename
    \/ Unlink
    \/ Reconfigure

SpecReconfigured == InitReconfigured /\ [][NextReconfigured]_vars

\* ---------------------------------------------- download_content_package
\* "module in manifest.get('modules', {})"
in_modules(mf, mod) == mod \in ModuleNames /\ mf.modules[mod].present

NotFound == [found |-> FALSE, name |-> None, info |-> NoEntry]
Found(name, info) == [found |-> TRUE, name |-> name, info |-> info]

\* "if module: ... else: ..." (lines 238-250): an argument of None or ""
\* takes the else branch.
modules_to_download(mf, mod) ==
    IF mod \notin {None, ""}
    THEN IF in_modules(mf, mod) THEN Found(mod, mf.modules[mod]) ELSE NotFound
    ELSE IF mf.core.present THEN Found("core", mf.core) ELSE NotFound

\* How a call of download_with_resume can end for its caller.
Outcomes == {"true", "false", "raised"}

\* download_manifest raises: caught at line 285, return False.
ManifestFails ==
    /\ pkg_pc = "idle"
    /\ pkg_pc' = "done"
    /\ pkg_result' = "false"
    /\ UNCHANGED <<download, second, manager, rest, manifest, module, module_name,
                   module_info, success, attempted, failed>>

\* Lines 237-253: the manifest is there; select the module.
SelectModule ==
    LET sel == modules_to_download(manifest, module) IN
    /\ pkg_pc = "idle"
    /\ IF sel.found
       THEN /\ module_name' = sel.name
            /\ module_info' = sel.info
            /\ success' = TRUE
            /\ pkg_pc' = "zim"
            /\ UNCHANGED pkg_result
       ELSE /\ pkg_pc' = "done"
            /\ pkg_result' = "false"
            /\ UNCHANGED <<module_name, module_info, success>>
    /\ UNCHANGED <<download, second, manager, rest, manifest, module, attempted, failed>>

\* Variant: a failed ZIM download does not end the module.
DownloadZimNoContinue(outcome) ==
    /\ pkg_pc = "zim"
    /\ module_info.zim_url
    /\ attempted' = attempted \cup {<<module_name, "zim">>}
    /\ failed' = IF outcome = "true" THEN failed
                 ELSE failed \cup {<<module_name, "zim">>}
    /\ success' = IF outcome = "false" THEN FALSE ELSE success
    /\ pkg_pc' = IF outcome = "raised" THEN "done" ELSE "index"
    /\ pkg_result' = IF outcome = "raised" THEN "false" ELSE pkg_result
    /\ UNCHANGED <<download, second, manager, rest, manifest, module, module_name,
                   module_info>>

\* Lines 258-269: the ZIM file.  False: "success = False; continue", and
\* the loop has no further module.  An exception: line 285.
DownloadZim(outcome) ==
    /\ pkg_pc = "zim"
    /\ module_info.zim_url
    /\ attempted' = attempted \cup {<<module_name, "zim">>}
    /\ failed' = IF outcome = "true" THEN failed
                 ELSE failed \cup {<<module_name, "zim">>}
    /\ success' = IF outcome = "false" THEN FALSE ELSE success
    /\ pkg_pc' = CASE outcome = "true" -> "index"
                  [] outcome = "false" -> "return"
                  [] outcome = "raised" -> "done"
    /\ pkg_result' = IF outcome = "raised" THEN "false" ELSE pkg_result
    /\ UNCHANGED <<download, second, manager, rest, manifest, module, module_name,
                   module_info>>

\* "if 'zim_url' in module_info" is false.
NoZim ==
    /\ pkg_pc = "zim"
    /\ ~module_info.zim_url
    /\ pkg_pc' = "index"
    /\ UNCHANGED <<download, second, manager, rest, manifest, module, module_name,
                   module_info, success, attempted, failed, pkg_result>>

\* Lines 271-281: the index.
DownloadIndex(outcome) ==
    /\ pkg_pc = "index"
    /\ module_info.index_url
    /\ attempted' = attempted \cup {<<module_name, "index">>}
    /\ failed' = IF outcome = "true" THEN failed
                 ELSE failed \cup {<<module_name, "index">>}
    /\ success' = IF outcome = "false" THEN FALSE ELSE success
    /\ pkg_pc' = IF outcome = "raised" THEN "done" ELSE "return"
    /\ pkg_result' = IF outcome = "raised" THEN "false" ELSE pkg_result
    /\ UNCHANGED <<download, second, manager, rest, manifest, module, module_name,
                   module_info>>

\* "if 'index_url' in module_info" is false.
NoIndex ==
    /\ pkg_pc = "index"
    /\ ~module_info.index_url
    /\ pkg_pc' = "return"
    /\ UNCHANGED <<download, second, manager, rest, manifest, module, module_name,
                   module_info, success, attempted, failed, pkg_result>>

\* "return success"
ReturnSuccess ==
    /\ pkg_pc = "return"
    /\ pkg_result' = IF success THEN "true" ELSE "false"
    /\ pkg_pc' = "done"
    /\ UNCHANGED <<download, second, manager, rest, manifest, module, module_name,
                   module_info, success, attempted, failed>>

\* The "module" arguments: none, the empty string, a name.
Selectors == {None, ""} \cup ModuleNames

\* A downloader that is not inside download_with_resume.
AtRest ==
    /\ InitDownload
    /\ file_size = 1
    /\ chunk_size = 1
    /\ verify_hash = NoHash

InitPackage ==
    /\ AtRest
    /\ InitSecond
    /\ NoManager
    /\ NoWorkers
    /\ NoExtractor
    /\ dm_remote = 1
    /\ dm_size_bytes = 0
    /\ manifest \in [modules : [ModuleNames -> Entries], core : Entries]
    /\ module \in Selectors
    /\ pkg_pc = "idle"
    /\ module_name = None
    /\ module_info = NoEntry
    /\ success = TRUE
    /\ attempted = {}
    /\ failed = {}
    /\ pkg_result = "none"

NextPackage ==
    \/ ManifestFails
    \/ SelectModule
    \/ \E outcome \in Outcomes : DownloadZim(outcome)
    \/ NoZim
    \/ \E outcome \in Outcomes : DownloadIndex(outcome)
    \/ NoIndex
    \/ ReturnSuccess

SpecPackage == InitPackage /\ [][NextPackage]_vars

\* ------------------------------------------------------ DownloadManager
\* "expected_size > 0 and abs(size - expected_size) < 1024 * 1024"
already_downloaded(d, expected) ==
    /\ d.exists
    /\ expected > 0
    /\ Max(Len(d.data) - expected, expected - Len(d.data)) < 1024 * 1024

\* download_file up to its retry loop (lines 182-215).
DownloadFile ==
    /\ dm_pc = "idle"
    /\ IF already_downloaded(dm_dest, dm_size_bytes)
       THEN /\ dm_status' = "completed"
            /\ dm_result' = "true"
            /\ dm_error' = ""
            /\ dm_attempts' = 0
            /\ UNCHANGED <<dm_pc, dm_attempt>>
       ELSE /\ dm_status' = "pending"
            /\ dm_attempts' = 0
            /\ dm_error' = ""
            /\ dm_attempt' = 0
            /\ dm_result' = "none"
            /\ dm_pc' = "attempt"
    /\ dm_probe_failed' = FALSE
    /\ dm_start_pos' = 0
    /\ UNCHANGED <<download, second, package, rest, dm_remote, dm_size_bytes,
                   dm_dest, dm_tmp, dm_supports_resume>>

\* The head of the retry loop (lines 218-219).
BeginAttempt ==
    /\ dm_pc = "attempt"
    /\ dm_attempts' = dm_attempt + 1
    /\ dm_pc' = "probe"
    /\ UNCHANGED <<download, second, package, rest, dm_remote, dm_size_bytes,
                   dm_dest, dm_tmp, dm_attempt, dm_status, dm_error,
                   dm_supports_resume, dm_start_pos, dm_probe_failed,
                   dm_result>>

\* download_with_progress up to the request (lines 93-114): get_file_info
\* answers, or catches its exception and reports no resume support; the
\* status becomes 'downloading'.
Probe(ok, accepts_ranges) ==
    LET supports == ok /\ accepts_ranges IN
    /\ dm_pc = "probe"
    /\ dm_probe_failed' = ~ok
    /\ dm_supports_resume' = supports
    /\ dm_start_pos' = IF dm_tmp.exists /\ supports
                       THEN Len(dm_tmp.data) ELSE 0
    /\ dm_status' = "downloading"
    /\ dm_pc' = "transfer"
    /\ UNCHANGED <<download, second, package, rest, dm_remote, dm_size_bytes,
                   dm_dest, dm_tmp, dm_attempt, dm_attempts, dm_error,
                   dm_result>>

\* The body of a response: the range from start_pos on a 206, the whole
\* resource on a 200.
body(status, size, start) ==
    IF status = "206" THEN RemoteRange(size, start, size - 1)
    ELSE Remote(size)

\* urlopen raises (no connection, an HTTP error status): the except
\* branch of lines 175-180.
TransferFails ==
    /\ dm_pc = "transfer"
    /\ dm_status' = "failed"
    /\ dm_error' = "error"
    /\ dm_pc' = "retry"
    /\ UNCHANGED <<download, second, package, rest, dm_remote, dm_size_bytes,
                   dm_dest, dm_tmp, dm_attempt, dm_attempts,
                   dm_supports_resume, dm_start_pos, dm_probe_failed,
                   dm_result>>

\* Lines 116-173: the response is read into the temp file, appended when
\* start_pos > 0.  k bytes arrive; short of the whole body the read
\* raises, otherwise the temp file is renamed and the status becomes
\* 'completed'.
Transfer(status, k) ==
    LET data == body(status, dm_remote, dm_start_pos)
        base == IF dm_start_pos > 0 THEN dm_tmp.data ELSE <<>>
        written == base \o SubSeq(data, 1, k)
    IN
    /\ dm_pc = "transfer"
    /\ status = "206" => (dm_start_pos > 0 /\ dm_start_pos < dm_remote)
    /\ k \in 0..Len(data)
    /\ Len(written) <= DMMaxLen
    /\ IF k = Len(data)
       THEN /\ dm_dest' = File(written)
            /\ dm_tmp' = Absent
            /\ dm_status' = "completed"
            /\ dm_result' = "true"
            /\ dm_pc' = "idle"
            /\ UNCHANGED dm_error
       ELSE /\ dm_tmp' = File(written)
            /\ dm_status' = "failed"
            /\ dm_error' = "error"
            /\ dm_pc' = "retry"
            /\ UNCHANGED <<dm_dest, dm_result>>
    /\ UNCHANGED <<download, second, package, rest, dm_remote, dm_size_bytes,
                   dm_attempt, dm_attempts, dm_supports_resume, dm_start_pos,
                   dm_probe_failed>>

\* download_with_progress returned False (lines 224-231): back off and go
\* round the loop, or return False after the last attempt.
Retry ==
    /\ dm_pc = "retry"
    /\ IF dm_attempt + 1 < DM_MAX_RETRIES
       THEN /\ dm_attempt' = dm_attempt + 1
            /\ dm_pc' = "attempt"
            /\ UNCHANGED dm_result
       ELSE /\ dm_result' = "false"
            /\ dm_pc' = "idle"
            /\ UNCHANGED dm_attempt
    /\ UNCHANGED <<download, second, package, rest, dm_remote, dm_size_bytes,
                   dm_dest, dm_tmp, dm_status, dm_attempts, dm_error,
                   dm_supports_resume, dm_start_pos, dm_probe_failed>>

InitManager ==
    /\ AtRest
    /\ InitSecond
    /\ NoPackage
    /\ NoManager
    /\ NoWorkers
    /\ NoExtractor
    /\ dm_remote \in 1..DMMaxSize
    /\ dm_size_bytes \in {0, dm_remote}

NextManager ==
    \/ DownloadFile
    \/ BeginAttempt
    \/ \E ok, accepts_ranges \in BOOLEAN : Probe(ok, accepts_ranges)
    \/ TransferFails
    \/ \E status \in {"200", "206"}, k \in 0..DMMaxSize : Transfer(status, k)
    \/ Retry

SpecManager == InitManager /\ [][NextManager]_vars

\* ------------------------------- DownloadManager, a server that answers
\* The server answers every request it can: HEAD with the size and
\* Accept-Ranges: bytes, a GET without Range with 200 and the resource, a
\* GET with "Range: bytes=start_pos-" with 206 and the rest of the resource
\* when start_pos is inside it, and with 416 otherwise.
satisfiable(start, size) == start < size

\* The whole body arrives.
Answered ==
    \E status \in {"200", "206"} :
        /\ (status = "206") = (dm_start_pos > 0)
        /\ dm_start_pos > 0 => satisfiable(dm_start_pos, dm_remote)
        /\ Transfer(status, Len(body(status, dm_remote, dm_start_pos)))

\* 416 Range Not Satisfiable: urlopen raises HTTPError.
RangeNotSatisfiable ==
    /\ dm_start_pos > 0
    /\ ~satisfiable(dm_start_pos, dm_remote)
    /\ TransferFails

\* The process is killed while the body is read, after k bytes were
\* written to the temp file and before the rename.
Interrupted(k) ==
    LET status == IF dm_start_pos > 0 THEN "206" ELSE "200"
        data == body(status, dm_remote, dm_start_pos)
        base == IF dm_start_pos > 0 THEN dm_tmp.data ELSE <<>>
    IN
    /\ dm_pc = "transfer"
    /\ dm_start_pos > 0 => satisfiable(dm_start_pos, dm_remote)
    /\ k \in 0..Len(data)
    /\ dm_tmp' = File(base \o SubSeq(data, 1, k))
    /\ dm_pc' = "idle"
    /\ dm_result' = "killed"
    /\ UNCHANGED <<download, second, package, rest, dm_remote, dm_size_bytes,
                   dm_dest, dm_attempt, dm_status, dm_attempts, dm_error,
                   dm_supports_resume, dm_start_pos, dm_probe_failed>>

NextAnswering ==
    \/ DownloadFile
    \/ BeginAttempt
    \/ Probe(TRUE, TRUE)
    \/ Answered
    \/ RangeNotSatisfiable
    \/ \E k \in 0..DMMaxSize : Interrupted(k)
    \/ Retry

SpecAnswering == InitManager /\ [][NextAnswering]_vars

\* ================================================================ claims
\* The chunk loop of the current run ran to its end (every outstanding chunk
\* was fetched and written).
LoopDone ==
    \/ pc = "loop" /\ chunk_num >= total_chunks(file_size, chunk_size)
    \/ pc \in {"rename", "unlink"}
    \/ mismatch
    \/ verified
    \/ renamed

AllOrdinals == 0..(total_chunks(file_size, chunk_size) - 1)

\* C1: integrity gate.  When a digest is given and the assembled temp file
\* does not hash to it, the run never renames the temp file, returns False,
\* and leaves the destination as it was when the run started; whenever a
\* run with a digest did rename, the published bytes are the ones the
\* digest identifies.
IntegrityGate ==
    /\ mismatch =>
          /\ ~renamed
          /\ dest = dest_at_start
          /\ pc = "idle" /\ result = "false"
    /\ (renamed /\ verify_hash.given) => dest.data = verify_hash.digest.hex
    /\ (pc = "rename" /\ verify_hash.given) =>
          tmp.data = verify_hash.digest.hex

\* A run ended on a digest mismatch while an earlier run's artifact is at
\* the destination, and the rejected temp file is still there.
IntegrityGateWitness ==
    /\ mismatch
    /\ dest.exists
    /\ tmp.exists
    /\ tmp.data /= verify_hash.digest.hex

\* C2: resume fetch set.  With S the completed ordinals of the ledger the
\* run loaded, no ordinal of S is ever fetched, and once the chunk loop has
\* run to its end the ordinals fetched are exactly {0..chunkCount-1} \ S.
ResumeFetchSet ==
    /\ fetched \cap ledger_at_start = {}
    /\ fetched \subseteq AllOrdinals
    /\ LoopDone => fetched = AllOrdinals \ ledger_at_start

\* A resumed run that skipped some ordinals and fetched others.
ResumeFetchSetWitness ==
    /\ LoopDone
    /\ ledger_at_start \cap AllOrdinals /= {}
    /\ fetched /= {}

\* C3: resume equivalence.  Whatever earlier interrupted or failed runs
\* left on disk, a run that publishes publishes exactly the bytes a single
\* fresh download produces, i.e. the remote resource.
ResumeEquivalence ==
    renamed => dest.data = Remote(file_size)

\* The ranges the plan assigns to the ordinals of a resource of the given
\* size, and the length of range i.
ChunkLen(i, cs, size) == end_byte(i, cs, size) - start_byte(i, cs) + 1

RECURSIVE SumLen(_, _, _)
SumLen(n, cs, size) ==
    IF n = 0 THEN 0 ELSE SumLen(n - 1, cs, size) + ChunkLen(n - 1, cs, size)

\* The ranges [s, e] of a set of requests tile [0, size): every offset is
\* in exactly one of them, and none reaches outside.
Tiles(reqs, size) ==
    /\ \A o \in 0..(size - 1) :
          Cardinality({r \in reqs : r[2] <= o /\ o <= r[3]}) = 1
    /\ \A r \in reqs : 0 <= r[2] /\ r[2] <= r[3] /\ r[3] <= size - 1

\* C4: chunk tiling.  For a size > 0 the ranges of ordinals
\* 0..total_chunks-1 are non-empty, start at 0, each begins right after the
\* previous one ends, the last ends at size-1, every offset of [0, size) is
\* in exactly one range, and the lengths sum to size; the ranges a fresh
\* run has requested when its loop ends are such a tiling.
ChunkTiling ==
    file_size > 0 =>
      LET n == total_chunks(file_size, chunk_size)
          s(i) == start_byte(i, chunk_size)
          e(i) == end_byte(i, chunk_size, file_size)
      IN
      /\ n >= 1
      /\ s(0) = 0
      /\ e(n - 1) = file_size - 1
      /\ \A i \in 0..(n - 1) : s(i) <= e(i)
      /\ \A i \in 0..(n - 2) : s(i + 1) = e(i) + 1
      /\ \A o \in 0..(file_size - 1) :
            Cardinality({i \in 0..(n - 1) : s(i) <= o /\ o <= e(i)}) = 1
      /\ SumLen(n, chunk_size, file_size) = file_size
      /\ (LoopDone /\ ledger_at_start = {}) => Tiles(requested, file_size)

\* A fresh run fetched every chunk of a resource whose size is not a
\* multiple of the chunk size, in more than one chunk.
ChunkTilingWitness ==
    /\ LoopDone
    /\ ledger_at_start = {}
    /\ Cardinality(requested) >= 2
    /\ file_size % chunk_size /= 0

\* C5: chunk plan formula.  The chunk count n is ceil(size / chunkSize)
\* (n*chunkSize >= size > (n-1)*chunkSize, and 0 for size 0); chunk i covers
\* [i*chunkSize, min((i+1)*chunkSize, size) - 1], and every request issued
\* carries that range; size 10,000,000 with the default chunk size
\* 4,194,304 gives 3 chunks of lengths 4194304, 4194304, 1611392.
ChunkPlanFormula ==
    LET n == total_chunks(file_size, chunk_size)
    IN
    /\ n * chunk_size >= file_size
    /\ (n - 1) * chunk_size < file_size \/ (n = 0 /\ file_size = 0)
    /\ \A i \in 0..(n - 1) :
          /\ start_byte(i, chunk_size) = i * chunk_size
          /\ end_byte(i, chunk_size, file_size)
                = Min((i + 1) * chunk_size, file_size) - 1
    /\ \A r \in requested :
          /\ r[2] = r[1] * chunk_size
          /\ r[3] = Min((r[1] + 1) * chunk_size, file_size) - 1
    /\ CHUNK_SIZE = 4194304
    /\ total_chunks(10000000, CHUNK_SIZE) = 3
    /\ <<ChunkLen(0, CHUNK_SIZE, 10000000),
          ChunkLen(1, CHUNK_SIZE, 10000000),
          ChunkLen(2, CHUNK_SIZE, 10000000)>>
         = <<4194304, 4194304, 1611392>>

\* A request for the last, shorter chunk of a resource was issued.
ChunkPlanFormulaWitness ==
    \E r \in requested :
        /\ r[1] = total_chunks(file_size, chunk_size) - 1
        /\ r[1] >= 1
        /\ r[3] - r[2] + 1 < chunk_size

\* C6: retry bound.  At most MAX_RETRIES (3) GETs are issued for one chunk;
\* download_chunk_with_retry gives up exactly when that many attempts have
\* failed, and the step that follows ends the run with False (no further
\* request for the chunk in that run).
RetryBound ==
    /\ [](/\ MAX_RETRIES = 3
          /\ nreq <= MAX_RETRIES
          /\ (pc = "request" => nreq < MAX_RETRIES)
          /\ (pc = "savefail" => nreq = MAX_RETRIES /\ last_status /= "206"))
    /\ [][pc = "savefail" =>
            /\ pc' = "idle"
            /\ result' \in {"false", "crashed"}
            /\ fetched' = fetched \/ fetched' = {}]_vars

\* Three attempts for one chunk all failed with a transient error, with
\* the two back-off sleeps in between.
RetryBoundWitness ==
    /\ pc = "savefail"
    /\ only_transient
    /\ nreq = MAX_RETRIES
    /\ sleeps = <<5, 10>>

\* C7: permanent errors are not retried.  Once a ranged GET was answered
\* with 200 or a permanent failure, that was the only request for the
\* chunk, no back-off sleep was taken, and the download is aborting.
PermanentNotRetried ==
    last_status \in {"200", "permanent"} =>
        /\ nreq = 1
        /\ sleeps = <<>>
        /\ pc = "savefail"

\* C8: no wrong-offset write.  A response other than 206 changes neither
\* the temp file nor the completed set, and a run in which a ranged GET was
\* answered 200 does not publish and ends with False.
NoWrongOffsetWrite ==
    /\ last_status \notin {"206", "none"} => pc \in {"request", "savefail"}
    /\ saw200 => ~renamed
    /\ (saw200 /\ pc = "idle") => result = "false"

\* C9: publish ordering.  The destination changes only in a step taken
\* after verification succeeded (when a digest is given), and the ledger
\* file disappears only in a step taken after the rename of the same run.
PublishOrdering ==
    /\ []((renamed /\ verify_hash.given) => verified)
    /\ [](unlinked => renamed)
    /\ [][dest' /= dest =>
            /\ renamed' /\ ~tmp'.exists
            /\ verify_hash.given => verified]_vars
    /\ [][(meta.state /= "absent" /\ meta'.state = "absent") =>
            renamed /\ dest = dest' /\ ~tmp.exists]_vars

\* A run verified the digest, renamed, and then deleted its ledger.
PublishOrderingWitness ==
    /\ unlinked
    /\ verified
    /\ renamed
    /\ result = "true"

\* The bytes of chunk i are in the temp file.
ChunkOnDisk(i) ==
    /\ tmp.exists
    /\ LET s == start_byte(i, chunk_size)
           e == end_byte(i, chunk_size, file_size)
       IN /\ Len(tmp.data) >= e + 1
          /\ \A o \in s..e : tmp.data[o + 1] = Remote(file_size)[o + 1]

\* C10: ledger soundness under interruption.  Whenever no run is in
\* progress (after a return or an interruption at any step), every ordinal
\* of the persisted ledger is a chunk whose bytes are in the temp file the
\* next run will use.
LedgerSound ==
    (pc = "idle" /\ meta.state = "ok") =>
        \A i \in meta.chunks_completed \cap AllOrdinals : ChunkOnDisk(i)

\* C11: destination exclusivity.  A second call started for a destination
\* while a first one is in flight ends at once with a conflict and writes
\* neither the temp file nor the ledger.
DestinationExclusive ==
    second_pc /= "idle" => (second_pc = "conflict" /\ second_wrote = {})

\* C12: corrupt ledger tolerance.  An unparseable ledger is read as an
\* empty completed set, so no call of download_with_resume is ended by the
\* ledger's content.
CorruptLedgerTolerated ==
    result /= "JSONDecodeError"

\* C14: unverified outcome.  A call without a digest, for a resource of
\* known size, that fetched every outstanding chunk and published the
\* artifact has succeeded.
UnverifiedOutcome ==
    (pc = "idle" /\ renamed /\ ~verify_hash.given /\ file_size > 0) =>
        result = "true"

\* C18: unknown size.  With a reported size of 0 the call is not ended by
\* an error of the file system, and its chunk loop covers the resource
\* with a single chunk.
UnknownSizeSingleChunk ==
    file_size = 0 =>
        /\ result /= "OSError"
        /\ pc = "loop" => total_chunks(file_size, chunk_size) = 1

\* C19: integrity failure handling.  The step that finds the digest
\* mismatch leaves the temp file in place with its content, fetches
\* nothing and ends the run with False; for as long as that run's outcome
\* stands the temp file is still there, unchanged, and the run has neither
\* passed a verification nor published.
IntegrityFailureHandling ==
    /\ [](mismatch =>
            /\ pc = "idle" /\ result = "false"
            /\ tmp.exists
            /\ ~verified /\ ~renamed)
    /\ [][(~mismatch /\ mismatch') =>
            /\ tmp' = tmp
            /\ fetched' = fetched
            /\ requested' = requested
            /\ nreq' = 0]_vars
    /\ [][mismatch => tmp' = tmp]_vars

\* A first download whose fetched chunks do not hash to the digest: the
\* run ended with False and its temp file is on disk, nothing published.
IntegrityFailureHandlingWitness ==
    /\ mismatch
    /\ result = "false"
    /\ tmp.exists
    /\ fetched = AllOrdinals
    /\ fetched /= {}
    /\ ~dest.exists

\* C13: ledger range invariant.  While a call of download_with_resume is
\* running, its completed set holds only ordinals of its own chunk plan,
\* also when the ledger it loaded was written under another chunk size.
LedgerInRange ==
    pc /= "idle" => chunks_completed \subseteq AllOrdinals

\* The artifacts a module descriptor names.
ArtifactsOf(t) ==
    (IF t.info.zim_url THEN {<<t.name, "zim">>} ELSE {}) \cup
    (IF t.info.index_url THEN {<<t.name, "index">>} ELSE {})

\* The module a call is to download: with a selector the entry of that name
\* under "modules", without one the manifest's core entry.
Designated ==
    IF module /= None
    THEN IF in_modules(manifest, module)
         THEN Found(module, manifest.modules[module]) ELSE NotFound
    ELSE IF manifest.core.present
         THEN Found("core", manifest.core) ELSE NotFound

\* C15: module selection.  download_content_package starts downloads only
\* for artifacts of the module its selector names (the core module when
\* there is no selector), a call that returned True has started all of
\* them, and when the manifest has no such module the call fails without
\* starting any download.
ModuleSelection ==
    /\ attempted \subseteq ArtifactsOf(Designated)
    /\ pkg_result = "true" =>
          Designated.found /\ attempted = ArtifactsOf(Designated)
    /\ (pkg_pc /= "idle" /\ ~Designated.found) =>
          pkg_pc = "done" /\ pkg_result = "false"

\* C16: module all-or-nothing.  After a failed ZIM download the index of
\* that module is never attempted and the call returns False; a call
\* returns True only if no attempted artifact failed.
ModuleAllOrNothing ==
    /\ <<module_name, "zim">> \in failed =>
          <<module_name, "index">> \notin attempted
    /\ (pkg_pc = "done" /\ failed /= {}) => pkg_result = "false"
    /\ pkg_result = "true" => failed = {}
    /\ failed \subseteq attempted

\* The ZIM download of a module that also has an index returned False and
\* the call is over.
ModuleAllOrNothingWitness ==
    /\ pkg_pc = "done"
    /\ module_info.index_url
    /\ <<module_name, "zim">> \in failed
    /\ ~success
    /\ attempted = {<<module_name, "zim">>}
    /\ pkg_result = "false"

\* C17: terminal states.  Inside a call of download_file a status of
\* 'failed' or 'completed' never changes again.
TerminalStates ==
    [][(dm_pc /= "idle" /\ dm_status \in {"failed", "completed"}) =>
            dm_status' = dm_status]_vars

\* C20: no swallowed failure.  A call of download_file whose latest
\* metadata probe failed has ended with the status 'failed' and a
\* non-empty error.
NoSwallowedFailure ==
    (dm_pc = "idle" /\ dm_probe_failed) =>
        (dm_status = "failed" /\ dm_error /= "")

\* The run is at its verify/publish step: the chunk loop is over and the
\* call has not returned.
AtPublish ==
    \/ pc = "loop" /\ chunk_num >= total_chunks(file_size, chunk_size)
    \/ pc \in {"rename", "unlink"}

\* C21: publish completeness.  A run that is at its verify/publish step has
\* every ordinal of {0..chunkCount-1} in its completed set, and each of
\* them came from the ledger it loaded or was fetched in this run.
PublishCompleteness ==
    AtPublish =>
        /\ AllOrdinals \subseteq chunks_completed
        /\ AllOrdinals \subseteq (ledger_at_start \cup fetched)

\* A resumed run of more than two chunks at its publish step, some of its
\* ordinals taken from the ledger and the others fetched.
PublishCompletenessWitness ==
    /\ pc = "rename"
    /\ Cardinality(AllOrdinals) > 2
    /\ ledger_at_start \cap AllOrdinals /= {}
    /\ fetched /= {}
    /\ chunks_completed = AllOrdinals

\* C22: backoff schedule.  Every sleep of download_chunk_with_retry follows
\* a failed attempt k that is not the last, lasts RETRY_DELAY * 2^k and is
\* followed by attempt k + 1; an attempt that raised and is not the last
\* is followed by that sleep; the last attempt is followed by none; three
\* failures in a row sleep 5 s and 10 s.
BackoffSchedule ==
    /\ [][pc = "request" =>
            \/ sleeps' = sleeps
            \/ sleeps' = <<>>
            \/ /\ sleeps' = Append(sleeps, RETRY_DELAY * (2 ^ attempt))
               /\ last_status' /= "206"
               /\ attempt + 1 < MAX_RETRIES
               /\ attempt' = attempt + 1
               /\ pc' = "request"]_vars
    /\ [][(/\ pc = "request"
           /\ pc' = "request"
           /\ last_status' \in {"200", "transient", "permanent"}) =>
            sleeps' = Append(sleeps, RETRY_DELAY * (2 ^ attempt))]_vars
    /\ [][(pc = "request" /\ attempt = MAX_RETRIES - 1) =>
            (sleeps' = sleeps \/ sleeps' = <<>>)]_vars
    /\ []((pc = "savefail" /\ only_transient) => sleeps = <<5, 10>>)

\* The third attempt for a chunk was answered 200 after two failures: the
\* sleeps of 5 s and 10 s were taken, none after the last attempt.
BackoffScheduleWitness ==
    /\ pc = "savefail"
    /\ last_status = "200"
    /\ attempt = MAX_RETRIES - 1
    /\ sleeps = <<RETRY_DELAY, 2 * RETRY_DELAY>>

\* C23: successful runs end cleanly.  A run for a resource of known size
\* that fetched every outstanding chunk, passed or skipped verification
\* and went through its publish step has returned True, with the
\* destination present and the temp file and the ledger absent.
SuccessEndsCleanly ==
    (pc = "idle" /\ renamed /\ file_size > 0) =>
        /\ result = "true"
        /\ dest.exists
        /\ ~tmp.exists
        /\ meta = NoMeta

\* C24 as stated: at every point of a running call fewer than 10 ordinals
\* of the completed set are missing from the ledger on disk.
LedgerCadenceEveryPoint ==
    pc /= "idle" =>
        Cardinality(chunks_completed \ load_metadata(meta)) < 10

\* C24: ledger persistence cadence.  An add that makes the size of the
\* completed set a multiple of 10 is followed by a save of that set, and a
\* run that returns False after a chunk failure leaves the completed set
\* in the ledger; hence fewer than 10 ordinals of the completed set are
\* missing from the ledger on disk whenever the call is not between such
\* an add and its save, and never more than 10.
LedgerCadence ==
    /\ [](pc \notin {"idle", "save"} =>
            Cardinality(chunks_completed \ load_metadata(meta)) < 10)
    /\ [](pc = "save" =>
            Cardinality(chunks_completed \ load_metadata(meta)) <= 10)
    /\ [][(pc = "mark" /\ Cardinality(chunks_completed') % 10 = 0) =>
            pc' \in {"save", "idle"}]_vars
    /\ [][(pc = "save" /\ pc' /= "idle") =>
            meta' = Ledger(chunks_completed)]_vars
    /\ [][(pc = "savefail" /\ result' = "false") =>
            meta' = Ledger(chunks_completed)]_vars

\* The tenth chunk of a run was completed and the ledger on disk holds all
\* ten.
LedgerCadenceWitness ==
    /\ pc = "loop"
    /\ Cardinality(chunks_completed) = 10
    /\ chunk_num = 10
    /\ meta = Ledger(chunks_completed)

\* C25: chunk length.  An ordinal is added to the completed set only if
\* the body written for it has exactly end_byte - start_byte + 1 bytes, and
\* the write of a chunk changes no byte outside that chunk's range.
ChunkLengthChecked ==
    /\ [][(pc = "mark" /\ chunk_num \in chunks_completed') =>
            Len(chunk_data) = ChunkLen(chunk_num, chunk_size, file_size)]_vars
    /\ [][pc = "write" =>
            /\ Len(tmp'.data) = Len(tmp.data)
            /\ \A k \in 1..Len(tmp.data) :
                  (\/ k <= start_byte(chunk_num, chunk_size)
                   \/ k > end_byte(chunk_num, chunk_size, file_size) + 1)
                  => tmp'.data[k] = tmp.data[k]]_vars

\* The temp file at the end of the chunk loop of a run that starts chunk n
\* with the temp file holding data and the completed set S, when every
\* request is answered 206: the chunks outside S are written in order.
RECURSIVE clean_run(_, _, _)
clean_run(data, S, n) ==
    IF n >= total_chunks(file_size, chunk_size) THEN data
    ELSE clean_run(
            IF is_completed(n, S) THEN data
            ELSE WriteAt(data, start_byte(n, chunk_size),
                         RemoteRange(file_size, start_byte(n, chunk_size),
                                     end_byte(n, chunk_size, file_size))),
            S, n + 1)

\* The digest the caller passed is the digest of the remote resource.
DigestOfRemote ==
    /\ verify_hash.given
    /\ ~hash_mismatch(hexdigest(Remote(file_size)), verify_hash.digest)

\* C26: recovery after integrity failure.  After a run that ended with a
\* digest mismatch although the digest is the resource's, the temp file
\* and the ledger left on disk are such that a re-run whose requests are
\* all answered with the right bytes assembles a file that passes the
\* verification.
RecoveryAfterMismatch ==
    (pc = "idle" /\ mismatch /\ DigestOfRemote) =>
        ~hash_mismatch(
            calculate_file_hash(
                File(clean_run(opened_temp(tmp, file_size).data,
                               load_metadata(meta), 0))),
            verify_hash.digest)

\* C27: DownloadManager resume content.  The file download_with_progress
\* renamed to dest_path holds exactly the bytes of the resource, in order.
ResumeContent ==
    dm_dest.exists => dm_dest.data = Remote(dm_remote)

\* C28: completion after late interruption.  With a server that answers
\* every request it can, a call of download_file that runs to its end
\* returns True and has published the file, whatever an interrupted
\* earlier call left in the temp file.
LateInterruptionCompletes ==
    (dm_pc = "idle" /\ dm_result \notin {"none", "killed"}) =>
        (dm_result = "true" /\ dm_dest.exists)

\* ------------------------------------------- download_all: worker threads
\* json.dump(self.status, f, indent=2) writes the status word of each entry;
\* an entry's serialised length follows the length of that word.
StatusLen(word) ==
    CASE word = "absent" -> 0
      [] word = "pending" -> 7
      [] word = "downloading" -> 11
      [] word = "completed" -> 9
      [] word = "failed" -> 6

RECURSIVE TextLenUpTo(_, _)
TextLenUpTo(text, n) ==
    IF n = 0 THEN 0 ELSE StatusLen(text[n]) + TextLenUpTo(text, n - 1)

TextLen(text) == TextLenUpTo(text, NFiles)

\* open(self.status_file, 'w'): the file is cut to length zero.
Truncated == [text |-> NoDownloads, len |-> 0, torn |-> FALSE]

\* A buffer flushed at offset 0 of a file that another descriptor may have
\* filled since this one truncated it: bytes past the buffer's end stay.
Flushed(file, text) ==
    [text |-> text,
     len |-> Max(file.len, TextLen(text)),
     torn |-> file.len > TextLen(text)]

Running(w) == wk_pc[w] \notin {"idle", "done"}

UnchangedByWorkers == UNCHANGED <<download, second, package, manager, extractor>>

\* executor.submit(self.download_file, file_info) gets a thread; download_file
\* records 'pending' and enters its retry loop.
Submit(w) ==
    /\ wk_pc[w] = "idle"
    /\ Cardinality({f \in Files : Running(f)}) < MAX_CONCURRENT_DOWNLOADS
    /\ downloads' = [downloads EXCEPT ![w] = "pending"]
    /\ wk_attempt' = [wk_attempt EXCEPT ![w] = 0]
    /\ wk_pc' = [wk_pc EXCEPT ![w] = "attempt"]
    /\ UNCHANGED <<status_file, wk_return, wk_buffer, wk_result>>
    /\ UnchangedByWorkers

\* download_with_progress: 'status': 'downloading', then self.save_status().
BeginTransfer(w) ==
    /\ wk_pc[w] = "attempt"
    /\ downloads' = [downloads EXCEPT ![w] = "downloading"]
    /\ wk_pc' = [wk_pc EXCEPT ![w] = "open"]
    /\ wk_return' = [wk_return EXCEPT ![w] = "transfer"]
    /\ UNCHANGED <<status_file, wk_attempt, wk_buffer, wk_result>>
    /\ UnchangedByWorkers

\* save_status, first step: with open(self.status_file, 'w') as f.
SaveOpen(w) ==
    /\ wk_pc[w] = "open"
    /\ status_file' = Truncated
    /\ wk_pc' = [wk_pc EXCEPT ![w] = "dump"]
    /\ UNCHANGED <<downloads, wk_attempt, wk_return, wk_buffer, wk_result>>
    /\ UnchangedByWorkers

\* save_status, second step: json.dump reads the shared dict into f's buffer.
SaveDump(w) ==
    /\ wk_pc[w] = "dump"
    /\ wk_buffer' = [wk_buffer EXCEPT ![w] = downloads]
    /\ wk_pc' = [wk_pc EXCEPT ![w] = "close"]
    /\ UNCHANGED <<downloads, status_file, wk_attempt, wk_return, wk_result>>
    /\ UnchangedByWorkers

\* save_status, last step: leaving the with block flushes the buffer.
SaveClose(w) ==
    /\ wk_pc[w] = "close"
    /\ status_file' = Flushed(status_file, wk_buffer[w])
    /\ wk_pc' = [wk_pc EXCEPT ![w] = wk_return[w]]
    /\ UNCHANGED <<downloads, wk_attempt, wk_return, wk_buffer, wk_result>>
    /\ UnchangedByWorkers

\* The transfer ends: 'completed' after the rename, 'failed' in the except
\* block; either is followed by self.save_status().
TransferEnds(w, ok) ==
    /\ wk_pc[w] = "transfer"
    /\ downloads' = [downloads EXCEPT
                        ![w] = IF ok THEN "completed" ELSE "failed"]
    /\ wk_pc' = [wk_pc EXCEPT ![w] = "open"]
    /\ wk_return' = [wk_return EXCEPT
                        ![w] = IF ok THEN "completed" ELSE "failed"]
    /\ UNCHANGED <<status_file, wk_attempt, wk_buffer, wk_result>>
    /\ UnchangedByWorkers

\* download_with_progress returned True: download_file returns True.
WorkerSucceeds(w) ==
    /\ wk_pc[w] = "completed"
    /\ wk_result' = [wk_result EXCEPT ![w] = "true"]
    /\ wk_pc' = [wk_pc EXCEPT ![w] = "done"]
    /\ UNCHANGED <<downloads, status_file, wk_attempt, wk_return, wk_buffer>>
    /\ UnchangedByWorkers

\* download_with_progress returned False: the next attempt, or return False.
WorkerFails(w) ==
    /\ wk_pc[w] = "failed"
    /\ IF wk_attempt[w] < DM_MAX_RETRIES - 1
       THEN /\ wk_attempt' = [wk_attempt EXCEPT ![w] = @ + 1]
            /\ wk_pc' = [wk_pc EXCEPT ![w] = "attempt"]
            /\ UNCHANGED wk_result
       ELSE /\ wk_result' = [wk_result EXCEPT ![w] = "false"]
            /\ wk_pc' = [wk_pc EXCEPT ![w] = "done"]
            /\ UNCHANGED wk_attempt
    /\ UNCHANGED <<downloads, status_file, wk_return, wk_buffer>>
    /\ UnchangedByWorkers

InitWorkers ==
    /\ AtRest
    /\ InitSecond
    /\ NoPackage
    /\ NoManager
    /\ dm_remote = 1
    /\ dm_size_bytes = 0
    /\ NoWorkers
    /\ NoExtractor

NextWorkers ==
    \E w \in Files :
        \/ Submit(w)
        \/ BeginTransfer(w)
        \/ SaveOpen(w)
        \/ SaveDump(w)
        \/ SaveClose(w)
        \/ \E ok \in BOOLEAN : TransferEnds(w, ok)
        \/ WorkerSucceeds(w)
        \/ WorkerFails(w)

SpecWorkers == InitWorkers /\ [][NextWorkers]_vars

\* download_all has returned: every future has a result.
AllReturned == \A f \in Files : wk_pc[f] = "done"

\* C29: once download_all has returned, the status file is a well-formed
\* snapshot holding, for every file of the list, the final status
\* ('completed' or 'failed') its worker recorded.
StatusPersisted ==
    AllReturned =>
        /\ ~status_file.torn
        /\ \A f \in Files :
            /\ downloads[f] \in {"completed", "failed"}
            /\ status_file.text[f] = downloads[f]

\* ------------------------------------------------- StreamingZIMExtractor
\* The ZIM file holds entries 1..NEntries; entry k has uuid k.
UnchangedByExtractor == UNCHANGED <<download, second, package, manager, workers>>

IndexerOutcomes == {"ok", "nonzero", "missing", "exception"}

\* process_zim_file up to the loop: load the checkpoint, reset the locals.
StartExtraction ==
    /\ ex_pc \in {"idle", "done"}
    /\ last_uuid' = state_file
    /\ found_start_point' = (state_file = 0)
    /\ ex_pos' = 0
    /\ batch_articles' = {}
    /\ last_processed_uuid' = 0
    /\ batch_failed' = FALSE
    /\ ex_pc' = "scan"
    /\ UNCHANGED <<batch_size, has_uuid, state_file, indexed>>
    /\ UnchangedByExtractor

\* One iteration before the start point was found: skip to the checkpoint.
SkipEntry ==
    /\ ex_pc = "scan"
    /\ ~found_start_point
    /\ ex_pos < NEntries
    /\ ex_pos' = ex_pos + 1
    /\ found_start_point' = (has_uuid /\ ex_pos + 1 = last_uuid)
    /\ UNCHANGED <<batch_size, has_uuid, state_file, ex_pc, last_uuid,
                   last_processed_uuid, batch_articles, indexed, batch_failed>>
    /\ UnchangedByExtractor

\* One iteration after the start point: the entry is extracted into the
\* batch, or skipped (redirect, not an article, unreadable, rejected).
ScanEntry(extracted) ==
    /\ ex_pc = "scan"
    /\ found_start_point
    /\ ex_pos < NEntries
    /\ ex_pos' = ex_pos + 1
    /\ batch_articles' =
          IF extracted THEN batch_articles \cup {ex_pos + 1} ELSE batch_articles
    /\ last_processed_uuid' =
          IF extracted /\ has_uuid THEN ex_pos + 1 ELSE last_processed_uuid
    /\ ex_pc' = IF Cardinality(batch_articles') >= batch_size
                THEN "batch" ELSE "scan"
    /\ UNCHANGED <<batch_size, has_uuid, state_file, last_uuid,
                   found_start_point, indexed, batch_failed>>
    /\ UnchangedByExtractor

\* The loop over the entries ends: "if batch_articles:" for the final batch.
EndOfEntries ==
    /\ ex_pc = "scan"
    /\ ex_pos = NEntries
    /\ ex_pc' = IF batch_articles /= {} THEN "final" ELSE "done"
    /\ UNCHANGED <<batch_size, has_uuid, state_file, ex_pos, last_uuid,
                   found_start_point, last_processed_uuid, batch_articles,
                   indexed, batch_failed>>
    /\ UnchangedByExtractor

\* process_batch: tantivy-indexer indexes the batch, or exits nonzero, is
\* missing, or subprocess.run raises; each failure is counted and the method
\* returns.
ProcessBatch(outcome) ==
    /\ ex_pc \in {"batch", "final"}
    /\ indexed' = IF outcome = "ok" THEN indexed \cup batch_articles ELSE indexed
    /\ batch_failed' = (outcome /= "ok")
    /\ ex_pc' = IF ex_pc = "batch" THEN "save" ELSE "finalsave"
    /\ UNCHANGED <<batch_size, has_uuid, state_file, ex_pos, last_uuid,
                   found_start_point, last_processed_uuid, batch_articles>>
    /\ UnchangedByExtractor

\* "if last_processed_uuid: self.save_progress(str(last_processed_uuid))",
\* then batch_articles = [] inside the loop.
SaveProgress ==
    /\ ex_pc \in {"save", "finalsave"}
    /\ state_file' =
          IF last_processed_uuid /= 0 THEN last_processed_uuid ELSE state_file
    /\ batch_articles' = IF ex_pc = "save" THEN {} ELSE batch_articles
    /\ ex_pc' = IF ex_pc = "save" THEN "scan" ELSE "done"
    /\ UNCHANGED <<batch_size, has_uuid, ex_pos, last_uuid, found_start_point,
                   last_processed_uuid, indexed, batch_failed>>
    /\ UnchangedByExtractor

\* The process is interrupted; the state file and the index stay.
ExtractionKilled ==
    /\ ex_pc \notin {"idle", "done"}
    /\ ex_pc' = "idle"
    /\ UNCHANGED <<batch_size, has_uuid, state_file, ex_pos, last_uuid,
                   found_start_point, last_processed_uuid, batch_articles,
                   indexed, batch_failed>>
    /\ UnchangedByExtractor

InitExtractor ==
    /\ AtRest
    /\ InitSecond
    /\ NoPackage
    /\ NoManager
    /\ dm_remote = 1
    /\ dm_size_bytes = 0
    /\ NoWorkers
    /\ batch_size \in 1..MaxBatch
    /\ has_uuid \in BOOLEAN
    /\ ExtractorAtRest

NextExtractor ==
    \/ StartExtraction
    \/ SkipEntry
    \/ \E extracted \in BOOLEAN : ScanEntry(extracted)
    \/ EndOfEntries
    \/ \E outcome \in IndexerOutcomes : ProcessBatch(outcome)
    \/ SaveProgress
    \/ ExtractionKilled

SpecExtractor == InitExtractor /\ [][NextExtractor]_vars

\* C30: the checkpoint in processing_state.json advances only after a batch
\* that process_batch indexed successfully; after a batch whose indexing
\* failed (nonzero exit, indexer missing, exception) it stays where it was.
CheckpointAfterSuccess ==
    [][state_file' /= state_file => ~batch_failed]_vars

====
